---- MODULE Spec2Model ----
(***************************************************************************)
(* Model of moldesign/interfaces/pdbfixer_interface.py: the mutation-string *)
(* parser, mutate_residues, add_water and the chain-name normalisation.     *)
(*                                                                          *)
(* A Python string is a sequence of one-character strings.  Objects         *)
(* (molecules, chains, residues, atoms) live in heaps, one sequence per     *)
(* class; an object's identity is its index in its heap, 0 is None.         *)
(***************************************************************************)
EXTENDS Integers, Sequences, FiniteSets, TLC

VARIABLES
    pc,          \* position of the running function
    args,        \* the caller's arguments
    molecules,   \* heap of Molecule objects
    chains,      \* heap of Chain objects
    residues,    \* heap of Residue objects
    atoms,       \* heap of Atom objects
    heap0,       \* the heaps as the caller handed them over
    locals,      \* the local variables of the running function
    ext_calls,   \* calls made into the external engine so far, in order
    outcome      \* "running", "returned" or the exception raised

vars == <<pc, args, molecules, chains, residues, atoms, heap0, locals,
          ext_calls, outcome>>

\* ------------------------------------------------------------------ bounds

NumRes == 3        \* residues of the caller's molecule
MaxStrLen == 5     \* longest mutation string drawn by the parser runs
MaxSolvent == 2    \* most residues the solvent placement appends
MaxCoord == 2      \* largest atom coordinate

\* ------------------------------------------------------- Python primitives

None == 0

Digits == {"0", "1", "2", "3", "4", "5", "6", "7", "8", "9"}

DigitVal(c) ==
    CASE c = "0" -> 0 [] c = "1" -> 1 [] c = "2" -> 2 [] c = "3" -> 3
      [] c = "4" -> 4 [] c = "5" -> 5 [] c = "6" -> 6 [] c = "7" -> 7
      [] c = "8" -> 8 [] c = "9" -> 9

\* str.isdigit(): non-empty and every character a digit
isdigit(s) == Len(s) > 0 /\ \A i \in 1..Len(s) : s[i] \in Digits

\* int(s) of a string of decimal digits
RECURSIVE int(_)
int(s) ==
    IF Len(s) = 0 THEN 0
    ELSE 10 * int(SubSeq(s, 1, Len(s) - 1)) + DigitVal(s[Len(s)])

ascii_uppercase ==
    <<"A", "B", "C", "D", "E", "F", "G", "H", "I", "J", "K", "L", "M",
      "N", "O", "P", "Q", "R", "S", "T", "U", "V", "W", "X", "Y", "Z">>

\* seq[i] with Python's 0-based index: a negative index counts from the end,
\* an index outside -len..len-1 raises IndexError
PyIndex(seq, i) ==
    IF 0 <= i /\ i < Len(seq) THEN [ok |-> TRUE, val |-> seq[i + 1]]
    ELSE IF -Len(seq) <= i /\ i < 0
         THEN [ok |-> TRUE, val |-> seq[Len(seq) + i + 1]]
         ELSE [ok |-> FALSE, val |-> ""]

\* s[-1], for a non-empty s
LastChar(s) == s[Len(s)]

Max(a, b) == IF a >= b THEN a ELSE b

SeqRange(s) == {s[i] : i \in 1..Len(s)}

\* the elements of s that satisfy Keep, in order
RECURSIVE SelectIdx(_, _)
SelectIdx(s, keep) ==
    IF Len(s) = 0 THEN <<>>
    ELSE LET rest == SelectIdx(SubSeq(s, 1, Len(s) - 1), keep)
         IN IF s[Len(s)] \in keep THEN Append(rest, s[Len(s)]) ELSE rest

\* ------------------------------------------- chain names (lines 143-149)

\* one iteration of the loop of _pdbfixer_chainnames_to_letter: the new name
\* of a chain named `name`
ChainLetter(name) ==
    IF isdigit(name)
    THEN LET r == PyIndex(ascii_uppercase, int(name) - 1)
         IN IF r.ok THEN <<r.val>> ELSE name    \* IndexError: continue
    ELSE name

\* the chain heap after _pdbfixer_chainnames_to_letter(mol): every chain of
\* the molecule is visited
_pdbfixer_chainnames_to_letter(chs, mol) ==
    [c \in 1..Len(chs) |->
        IF chs[c].molecule = mol
        THEN [chs[c] EXCEPT !.name = ChainLetter(chs[c].name)]
        ELSE chs[c]]

\* --------------------------------------------------- the host data model

\* mdt.data.RESIDUE_CODE_TO_NAME, on the codes the docstring of
\* mutate_residues uses
RESIDUE_CODE_TO_NAME ==
    (<<"A">> :> "ALA") @@ (<<"S">> :> "SER") @@ (<<"M">> :> "MET")

\* mdt.data.RESIDUE_ONE_LETTER.get(resname, '?')
RESIDUE_ONE_LETTER(resname) ==
    CASE resname = "ALA" -> <<"A">>
      [] resname = "SER" -> <<"S">>
      [] resname = "MET" -> <<"M">>
      [] OTHER -> <<"?">>

\* Residue.code
ResCode(r) == RESIDUE_ONE_LETTER(r.resname)

\* Residue.name: the residue type followed by its pdb index
ResName(r) == <<r.resname, r.pdbindex>>

\* the atom names of a residue of any amino-acid type of the model, and
\* Residue.backbone's names among them
AtomNames == <<"N", "C", "CB">>
BackboneNames == {"N", "C"}

\* residue.atoms: the atoms of residue r, in heap order
ResAtoms(ats, r) == {a \in 1..Len(ats) : ats[a].residue = r}

\* residue.atoms[name]
AtomByName(ats, r, name) ==
    LET hit == {a \in ResAtoms(ats, r) : ats[a].name = name}
    IN IF hit = {} THEN [ok |-> FALSE, atom |-> None]
       ELSE [ok |-> TRUE, atom |-> CHOOSE a \in hit : TRUE]

\* residue.backbone: None for a residue that has no backbone atoms
Backbone(ats, r) == {a \in ResAtoms(ats, r) : ats[a].name \in BackboneNames}

\* mol.num_residues, mol.num_atoms
num_residues(mols, mol) == Len(mols[mol].residues)
num_atoms(mols, ats, mol) ==
    Cardinality({a \in 1..Len(ats) : ats[a].residue \in SeqRange(mols[mol].residues)})

\* chain.residues: the residues of the chain's molecule that are in the chain
ChainResidues(mols, rs, mol, chain) ==
    SelectIdx(mols[mol].residues,
              {r \in 1..Len(rs) : rs[r].chain = chain})

\* mol.chains[name]: KeyError when the molecule has no chain of that name
ChainByName(mols, chs, mol, name) ==
    LET hit == {c \in SeqRange(mols[mol].chains) : chs[c].name = name}
    IN IF hit = {} THEN [ok |-> FALSE, chain |-> None]
       ELSE [ok |-> TRUE, chain |-> CHOOSE c \in hit : TRUE]

\* parent.get_residues(**query): the residues of the list whose fields equal
\* the query's; the query has no code when `code` is the empty string
get_residues(rs, candidates, pdbindex, code) ==
    SelectIdx(candidates,
              {r \in 1..Len(rs) :
                  /\ rs[r].pdbindex = pdbindex
                  /\ (Len(code) > 0 => ResCode(rs[r]) = code)})

\* ----------------------------------------- mutation strings (lines 188-220)

IsDigitChar(c) == c \in Digits

AllIn(s, from, to, digit) ==
    \A i \in from..to : IsDigitChar(s[i]) = digit

\* every way MUT_RE = (.*\.)?([^\d]*)(\d+)([^\d]+) matches a prefix of s:
\* <<p, a, b, c>> with group 1 = s[1..p] (absent when p = 0), group 2 =
\* s[p+1..a], group 3 = s[a+1..b], group 4 = s[b+1..c]
MUT_RE_Splits(s) ==
    LET L == Len(s)
    IN UNION { UNION { UNION { { <<p, a, b, c>> : c \in (b + 1)..L }
                               : b \in (a + 1)..L }
                       : a \in p..L }
               : p \in {0} \cup {i \in 1..L : s[i] = "."} }

MUT_RE_Valid(s, t) ==
    /\ AllIn(s, t[1] + 1, t[2], FALSE)
    /\ AllIn(s, t[2] + 1, t[3], TRUE)
    /\ AllIn(s, t[3] + 1, t[4], FALSE)

\* the order in which the backtracking matcher tries the splits: every
\* quantifier is greedy, the leftmost one decides first
Prefers(t, u) ==
    \/ t[1] > u[1]
    \/ t[1] = u[1] /\ t[2] > u[2]
    \/ t[1] = u[1] /\ t[2] = u[2] /\ t[3] > u[3]
    \/ t[1] = u[1] /\ t[2] = u[2] /\ t[3] = u[3] /\ t[4] >= u[4]

\* MUT_RE.match(s): re.match anchors at the start of s only
MUT_RE_match(s) ==
    LET ok == {t \in MUT_RE_Splits(s) : MUT_RE_Valid(s, t)}
    IN IF ok = {} THEN [matched |-> FALSE]
       ELSE LET t == CHOOSE t \in ok : \A u \in ok : Prefers(t, u)
            IN [matched |-> TRUE,
                haschain |-> t[1] > 0,
                chainid |-> SubSeq(s, 1, t[1]),
                initialcode |-> SubSeq(s, t[1] + 1, t[2]),
                residx |-> SubSeq(s, t[2] + 1, t[3]),
                finalcode |-> SubSeq(s, t[3] + 1, t[4])]

\* the keys of a mutation map (an insertion-ordered dict, as a sequence of
\* <<residue, new residue name>>)
MapKeys(m) == {m[i][1] : i \in 1..Len(m)}
MapGet(m, r) == (CHOOSE i \in 1..Len(m) : m[i][1] = r)
MapValue(m, r) == m[MapGet(m, r)][2]

\* the loop of lines 216-218 over the residues one string resolved to
RECURSIVE AssignAll(_, _, _)
AssignAll(mutmap, found, newresname) ==
    IF Len(found) = 0 THEN [exc |-> "none", mutmap |-> mutmap]
    ELSE IF Head(found) \in MapKeys(mutmap)
         THEN [exc |-> "AssertionError", mutmap |-> mutmap]
         ELSE AssignAll(Append(mutmap, <<Head(found), newresname>>),
                        Tail(found), newresname)

\* lines 200-203: the residues the query runs over, the named chain's when
\* the string has a chain prefix and the whole molecule's otherwise
ParentResidues_WholeMolecule(mols, chs, rs, mol, match) ==
    [ok |-> TRUE, residues |-> mols[mol].residues]

ParentResidues(mols, chs, rs, mol, match) ==
    IF match.haschain
    THEN LET parent == ChainByName(mols, chs, mol,
                           SubSeq(match.chainid, 1, Len(match.chainid) - 1))
         IN IF parent.ok
            THEN [ok |-> TRUE,
                  residues |-> ChainResidues(mols, rs, mol, parent.chain)]
            ELSE [ok |-> FALSE, residues |-> <<>>]
    ELSE [ok |-> TRUE, residues |-> mols[mol].residues]

\* the body of the loop of lines 195-218 for one string s
MutStrToMap(mols, chs, rs, mol, mutmap, s) ==
    LET match == MUT_RE_match(s)
    IN IF ~match.matched THEN [exc |-> "ValueError", mutmap |-> mutmap]
       ELSE
       LET parent == ParentResidues(mols, chs, rs, mol, match)
       IN IF ~parent.ok THEN [exc |-> "KeyError", mutmap |-> mutmap]
          ELSE IF match.finalcode \notin DOMAIN RESIDUE_CODE_TO_NAME
          THEN [exc |-> "KeyError", mutmap |-> mutmap]
          ELSE
          LET found == get_residues(rs, parent.residues, int(match.residx),
                                    match.initialcode)
          IN IF Len(found) = 0
             THEN [exc |-> "ValueError", mutmap |-> mutmap]
             ELSE AssignAll(mutmap, found,
                            RESIDUE_CODE_TO_NAME[match.finalcode])

\* _mut_strs_to_map(mol, strs) for a list of strings (a single string is
\* wrapped into a list by line 193)
RECURSIVE MutStrsFrom(_, _, _, _, _, _)
MutStrsFrom(mols, chs, rs, mol, mutmap, strs) ==
    IF Len(strs) = 0 THEN [exc |-> "none", mutmap |-> mutmap]
    ELSE LET one == MutStrToMap(mols, chs, rs, mol, mutmap, Head(strs))
         IN IF one.exc # "none" THEN one
            ELSE MutStrsFrom(mols, chs, rs, mol, one.mutmap, Tail(strs))

_mut_strs_to_map(mols, chs, rs, mol, strs) ==
    MutStrsFrom(mols, chs, rs, mol, <<>>, strs)

\* ------------------------------------------------ objects and their heaps

\* atom.bond_graph is a set of <<bonded atom, order>>
BondedTo(ats, a) == {e[1] : e \in ats[a].bond_graph}
BondOrder(ats, a, b) == (CHOOSE e \in ats[a].bond_graph : e[1] = b)[2]

\* a.bond_to(b, order): both atoms' bond graphs get the entry
bond_to(ats, a, b, order) ==
    [x \in 1..Len(ats) |->
        IF x = a
        THEN [ats[x] EXCEPT !.bond_graph =
                 {e \in ats[x].bond_graph : e[1] # b} \cup {<<b, order>>}]
        ELSE IF x = b
        THEN [ats[x] EXCEPT !.bond_graph =
                 {e \in ats[x].bond_graph : e[1] # a} \cup {<<a, order>>}]
        ELSE ats[x]]

\* the atoms of a list of residues, residue by residue
RECURSIVE AtomsOf(_, _)
AtomsOf(ats, reslist) ==
    IF Len(reslist) = 0 THEN <<>>
    ELSE AtomsOf(ats, SubSeq(reslist, 1, Len(reslist) - 1))
         \o SelectIdx([a \in 1..Len(ats) |-> a],
                      ResAtoms(ats, reslist[Len(reslist)]))

\* the distinct values of a sequence, in order of first occurrence
RECURSIVE Distinct(_)
Distinct(s) ==
    IF Len(s) = 0 THEN <<>>
    ELSE LET rest == Distinct(SubSeq(s, 1, Len(s) - 1))
         IN IF s[Len(s)] \in SeqRange(rest) THEN rest ELSE Append(rest, s[Len(s)])

IndexOf(s, x) == CHOOSE i \in 1..Len(s) : s[i] = x

\* mdt.Molecule(reslist, metadata=metadata): a new molecule that owns copies
\* of the residues, of their chains and of their atoms; a bond is kept when
\* both its atoms are copied
Molecule(mols, chs, rs, ats, reslist, metadata) ==
    LET m == Len(mols) + 1
        oldchains == Distinct([i \in 1..Len(reslist) |-> rs[reslist[i]].chain])
        oldatoms == AtomsOf(ats, reslist)
        newchain(c) == Len(chs) + IndexOf(oldchains, c)
        newres(r) == Len(rs) + IndexOf(reslist, r)
        newatom(a) == Len(ats) + IndexOf(oldatoms, a)
    IN [molecules |-> Append(mols,
            [residues |-> [i \in 1..Len(reslist) |-> Len(rs) + i],
             chains |-> [i \in 1..Len(oldchains) |-> Len(chs) + i],
             metadata |-> metadata]),
        chains |-> chs \o [i \in 1..Len(oldchains) |->
            [name |-> chs[oldchains[i]].name, molecule |-> m]],
        residues |-> rs \o [i \in 1..Len(reslist) |->
            [resname |-> rs[reslist[i]].resname,
             pdbindex |-> rs[reslist[i]].pdbindex,
             chain |-> newchain(rs[reslist[i]].chain),
             mol |-> m]],
        atoms |-> ats \o [i \in 1..Len(oldatoms) |->
            [name |-> ats[oldatoms[i]].name,
             residue |-> newres(ats[oldatoms[i]].residue),
             position |-> ats[oldatoms[i]].position,
             bond_graph |-> {<<newatom(e[1]), e[2]>> :
                 e \in {e \in ats[oldatoms[i]].bond_graph :
                            e[1] \in SeqRange(oldatoms)}}]],
        mol |-> m]

\* the bonds a structure file implies for a list of residues, as
\* <<residue index, atom name, residue index, atom name, order>>: N-C and
\* C-CB inside an amino acid, O-H1 and O-H2 inside a water, C-N between
\* neighbouring amino acids of one chain
HasAtom(res, i, name) == name \in SeqRange(res[i].atoms)

StandardBonds(res) ==
    LET inside(i, x, y) ==
            IF HasAtom(res, i, x) /\ HasAtom(res, i, y)
            THEN {<<i, x, i, y, 1>>} ELSE {}
    IN UNION {inside(i, "N", "C") \cup inside(i, "C", "CB")
              \cup inside(i, "O", "H1") \cup inside(i, "O", "H2")
                 : i \in 1..Len(res)}
       \cup {<<i, "C", i + 1, "N", 1>> :
                 i \in {i \in 1..(Len(res) - 1) :
                          /\ res[i].chain = res[i + 1].chain
                          /\ HasAtom(res, i, "C")
                          /\ HasAtom(res, i + 1, "N")}}

\* <<residue index, atom name>> of every atom of the residues, in order
RECURSIVE AtomList(_)
AtomList(res) ==
    IF Len(res) = 0 THEN <<>>
    ELSE AtomList(SubSeq(res, 1, Len(res) - 1))
         \o [k \in 1..Len(res[Len(res)].atoms) |->
                <<Len(res), res[Len(res)].atoms[k]>>]

\* the bond graph of atom <<i, name>> in a set of bonds
GraphOf(bonds, flat, base, at) ==
    LET id(i, name) == base + IndexOf(flat, <<i, name>>)
    IN {<<id(e[3], e[4]), e[5]>> : e \in {e \in bonds : <<e[1], e[2]>> = at}}
       \cup {<<id(e[1], e[2]), e[5]>> : e \in {e \in bonds : <<e[3], e[4]>> = at}}

\* ------------------------------------------------- the caller's molecule

\* Strings of length at most n over an alphabet
RECURSIVE StringsUpTo(_, _)
StringsUpTo(alphabet, n) ==
    IF n = 0 THEN {<<>>}
    ELSE LET shorter == StringsUpTo(alphabet, n - 1)
         IN shorter \cup {Append(s, c) : s \in shorter, c \in alphabet}

\* residue i of the caller's molecule is in the first chain up to `split`
ChainOf(split) == [i \in 1..NumRes |-> IF i <= split THEN 1 ELSE 2]

\* pdb numbering: restarting in every chain, or running through the molecule
PdbIndex(split, restart, i) == IF restart /\ i > split THEN i - split ELSE i

DefaultPosition(a) == <<a, 0, 0>>

EmptyHeaps == [molecules |-> <<>>, chains |-> <<>>, residues |-> <<>>, atoms |-> <<>>]

\* The heaps h with one more molecule: chains named `names`, residue i as
\* res[i] says (res[i].chain counts the new chains from 1, res[i].atoms names
\* its atoms), atom j of the new molecule at coords[j], with the bonds of its
\* structure and the bonds `extra`
BuildMolecule(h, names, res, extra, coords, metadata) ==
    LET m == Len(h.molecules) + 1
        cbase == Len(h.chains)
        rbase == Len(h.residues)
        abase == Len(h.atoms)
        flat == AtomList(res)
        bonds == StandardBonds(res) \cup extra
    IN [molecules |-> Append(h.molecules,
            [residues |-> [i \in 1..Len(res) |-> rbase + i],
             chains |-> [c \in 1..Len(names) |-> cbase + c],
             metadata |-> metadata]),
        chains |-> h.chains \o
            [c \in 1..Len(names) |-> [name |-> names[c], molecule |-> m]],
        residues |-> h.residues \o [i \in 1..Len(res) |->
            [resname |-> res[i].resname,
             pdbindex |-> res[i].pdbindex,
             chain |-> cbase + res[i].chain,
             mol |-> m]],
        atoms |-> h.atoms \o [j \in 1..Len(flat) |->
            [name |-> flat[j][2],
             residue |-> rbase + flat[j][1],
             position |-> coords[j],
             bond_graph |-> GraphOf(bonds, flat, abase, flat[j])]]]

\* The caller's molecule: NumRes amino acids, ALA and SER, in one or two
\* chains
CallerResname(i) == IF i % 2 = 1 /\ i < NumRes THEN "ALA" ELSE "SER"

CallerMolecule(split, names, restart, extra, coords) ==
    BuildMolecule(EmptyHeaps,
        SubSeq(names, 1, IF split < NumRes THEN 2 ELSE 1),
        [i \in 1..NumRes |->
            [resname |-> CallerResname(i),
             pdbindex |-> PdbIndex(split, restart, i),
             chain |-> ChainOf(split)[i],
             atoms |-> AtomNames]],
        extra, coords, [dict |-> 1, items |-> {"pdbid"}])

LetterNames == <<<<"A">>, <<"S">>>>

NoLocals ==
    [residue_map |-> <<>>, temp_mutant |-> None, residues_to_copy |-> <<>>,
     old_residue_map |-> <<>>, orig_bonds |-> <<>>, mutation_strs |-> <<>>,
     positive_ion |-> <<>>, negative_ion |-> <<>>, boxsize |-> <<0, 0, 0>>,
     solv_tempmol |-> None, result |-> None]

InitWith(start, h, a) ==
    /\ pc = start
    /\ args = a
    /\ molecules = h.molecules
    /\ chains = h.chains
    /\ residues = h.residues
    /\ atoms = h.atoms
    /\ heap0 = h
    /\ locals = NoLocals
    /\ ext_calls = <<>>
    /\ outcome = "running"

Finish(result) ==
    /\ pc' = "done"
    /\ outcome' = result

\* ------------------------------------- runs of _pdbfixer_chainnames_to_letter

ChainNameChars == {"0", "1", "2", "7", "A"}

InitChainNames ==
    \E split \in 1..NumRes, n1, n2 \in StringsUpTo(ChainNameChars, 2) :
        InitWith("chainnames",
                 CallerMolecule(split, <<n1, n2>>, TRUE, {},
                                [a \in 1..(Len(AtomNames) * NumRes) |->
                                    DefaultPosition(a)]),
                 [mol |-> 1])

ChainNamesToLetter ==
    /\ pc = "chainnames"
    /\ chains' = _pdbfixer_chainnames_to_letter(chains, args.mol)
    /\ Finish("returned")
    /\ UNCHANGED <<args, molecules, residues, atoms, heap0, locals, ext_calls>>

SpecChainNames == InitChainNames /\ [][ChainNamesToLetter]_vars

\* ------------------------------------------------ runs of _mut_strs_to_map

MutChars == {"A", "S", ".", "1", "2"}

PlainMolecules ==
    {CallerMolecule(split, LetterNames, restart, {},
                    [a \in 1..(Len(AtomNames) * NumRes) |-> DefaultPosition(a)])
        : split \in 1..NumRes, restart \in {TRUE}}

InitParse ==
    \E h \in PlainMolecules, s \in StringsUpTo(MutChars, MaxStrLen) :
        InitWith("strs_to_map", h, [mol |-> 1, strs |-> <<s>>])

MutStrsToMap ==
    /\ pc = "strs_to_map"
    /\ LET r == _mut_strs_to_map(molecules, chains, residues, args.mol, args.strs)
       IN /\ locals' = [locals EXCEPT !.residue_map = r.mutmap]
          /\ Finish(IF r.exc = "none" THEN "returned" ELSE r.exc)
    /\ UNCHANGED <<args, molecules, chains, residues, atoms, heap0, ext_calls>>

SpecParse == InitParse /\ [][MutStrsToMap]_vars

\* ---------------------------------------------------- mutate_residues

DigitChars == <<"0", "1", "2", "3", "4", "5", "6", "7", "8", "9">>

\* '%d' % n, for n >= 0
RECURSIVE DecStr(_)
DecStr(n) ==
    IF n < 10 THEN <<DigitChars[n + 1]>>
    ELSE Append(DecStr(n \div 10), DigitChars[(n % 10) + 1])

\* _mutation_as_str(res, newres), lines 177-182
_mutation_as_str(chs, rs, res, newres) ==
    LET mutstr == ResCode(rs[res]) \o DecStr(rs[res].pdbindex)
                  \o RESIDUE_ONE_LETTER(newres)
        pdbname == chs[rs[res].chain].name
    IN IF Len(pdbname) > 0 THEN pdbname \o <<".">> \o mutstr ELSE mutstr

\* lines 85-92: one applyMutations call per chain that has mutations, with
\* that chain's descriptors <<resname, pdbindex, newname>>
ApplyMutationsCalls(chs, rs, residue_map) ==
    LET chainids == Distinct([i \in 1..Len(residue_map) |->
                                 chs[rs[residue_map[i][1]].chain].name])
        ofchain(c) == SelectIdx([i \in 1..Len(residue_map) |-> i],
                          {i \in 1..Len(residue_map) :
                              chs[rs[residue_map[i][1]].chain].name = c})
    IN [k \in 1..Len(chainids) |->
          <<"applyMutations", chainids[k],
            [j \in 1..Len(ofchain(chainids[k])) |->
                LET e == residue_map[ofchain(chainids[k])[j]]
                IN <<rs[e[1]].resname, rs[e[1]].pdbindex, e[2]>>]>>]

\* The external engine: the residue type it gives the residue of chain
\* `chainid` with pdb index `pdbindex` after the calls `calls`
EngineResname(calls, chainid, resname, pdbindex) ==
    LET hits == {d \in UNION {SeqRange(calls[k][3]) :
                        k \in {k \in 1..Len(calls) : calls[k][2] = chainid}} :
                    d[1] = resname /\ d[2] = pdbindex}
    IN IF hits = {} THEN resname ELSE (CHOOSE d \in hits : TRUE)[3]

\* the engine lists a residue's atoms in its own order
EngineAtomNames == <<"CB", "C", "N">>
WaterAtomNames == <<"O", "H1", "H2">>

\* fixer_to_mol(fixer), line 93: the engine's structure as a new molecule,
\* residue by residue in the caller's order; delta is the number of residues
\* the engine added (or, negative, dropped) at the end.  The engine numbers
\* the chains 1, 2, ...
fixer_to_mol(h, mol, calls, delta) ==
    LET src == h.molecules[mol].residues
        n == Len(src) + delta
        cbase == h.molecules[mol].chains[1] - 1
        last == h.residues[src[Len(src)]]
    IN BuildMolecule(h,
        [c \in 1..Len(h.molecules[mol].chains) |-> DecStr(c)],
        [i \in 1..n |->
            IF i <= Len(src)
            THEN LET r == h.residues[src[i]]
                 IN [resname |-> EngineResname(calls, h.chains[r.chain].name,
                                               r.resname, r.pdbindex),
                     pdbindex |-> r.pdbindex,
                     chain |-> r.chain - cbase,
                     atoms |-> EngineAtomNames]
            ELSE [resname |-> "HOH", pdbindex |-> last.pdbindex + 1,
                  chain |-> last.chain - cbase, atoms |-> WaterAtomNames]],
        {},
        [j \in 1..(Len(EngineAtomNames) * n) |-> <<j, 1, 0>>],
        [dict |-> 2, items |-> {}])

\* lines 103-106: the engine's residue is detached from the temporary
\* molecule and put into the original residue's chain
GraftResidue_ReparentsOriginal(rs, oldres, mutant_res) ==
    [rs EXCEPT ![oldres].mol = None, ![mutant_res].chain = rs[oldres].chain]

GraftResidue(rs, oldres, mutant_res) ==
    [rs EXCEPT ![mutant_res].mol = None, ![mutant_res].chain = rs[oldres].chain]

\* line 102-108: what goes into residues_to_copy for the pair
\* (oldres, mutant_res)
ResidueToCopy_AlwaysEngine(residue_map, oldres, mutant_res) == mutant_res

ResidueToCopy(residue_map, oldres, mutant_res) ==
    IF oldres \in MapKeys(residue_map) THEN mutant_res ELSE oldres

\* the loop of lines 101-108 over zip(mol.residues, temp_mutant.residues),
\* from pair i on
RECURSIVE GraftFrom(_, _, _, _, _)
GraftFrom(rs, old, new, residue_map, i) ==
    IF i > Len(old) \/ i > Len(new)
    THEN [residues |-> rs, residues_to_copy |-> <<>>, old_residue_map |-> <<>>]
    ELSE LET mutated == old[i] \in MapKeys(residue_map)
             rest == GraftFrom(IF mutated THEN GraftResidue(rs, old[i], new[i])
                               ELSE rs,
                               old, new, residue_map, i + 1)
         IN [residues |-> rest.residues,
             residues_to_copy |->
                 <<ResidueToCopy(residue_map, old[i], new[i])>>
                 \o rest.residues_to_copy,
             old_residue_map |->
                 (IF mutated THEN <<<<old[i], new[i]>>>> ELSE <<>>)
                 \o rest.old_residue_map]

\* a set of tuples of numbers as a sequence, in lexicographic order
RECURSIVE Sorted(_)
Sorted(S) ==
    IF S = {} THEN <<>>
    ELSE LET first == CHOOSE x \in S : \A y \in S :
                          x[1] < y[1] \/ (x[1] = y[1] /\ x[2] <= y[2])
         IN <<first>> \o Sorted(S \ {first})

\* the atoms a residue offers the bond scan of lines 119-121
ScannedAtoms(ats, res) == Backbone(ats, res)

\* lines 117-126: <<atom, bond_atom>> for every backbone atom of a residue of
\* residues_to_copy and every neighbour of it whose residue is mutated
BoundaryPairs(rs, ats, residues_to_copy, residue_map) ==
    {p \in UNION {{<<a, b>> : b \in BondedTo(ats, a)} :
                    a \in UNION {ScannedAtoms(ats, res) :
                                   res \in SeqRange(residues_to_copy)}} :
        ats[p[2]].residue \in MapKeys(residue_map)}

\* line 124-126: the entry of orig_bonds for <<atom, bond_atom>>
OrigBond(ats, old_residue_map, pair) ==
    LET mutant_res == MapValue(old_residue_map, ats[pair[2]].residue)
        mutant_atom == AtomByName(ats, mutant_res, ats[pair[2]].name)
    IN [ok |-> mutant_atom.ok,
        bond |-> <<pair[1], mutant_atom.atom, BondOrder(ats, pair[1], pair[2])>>]

\* residues[name]: the residue of the list with that name
ResidueByName(rs, reslist, name) ==
    LET hit == {r \in SeqRange(reslist) : ResName(rs[r]) = name}
    IN IF hit = {} THEN [ok |-> FALSE, residue |-> None]
       ELSE [ok |-> TRUE, residue |-> CHOOSE r \in hit : TRUE]

\* line 135-136: the residues among which both atoms of a bond are looked up
RepairResidues(h, mutant_mol, atom, mut_atom) ==
    LET chainID == h.chains[h.residues[h.atoms[atom].residue].chain].name
        chain == ChainByName(h.molecules, h.chains, mutant_mol, chainID)
    IN IF chain.ok
       THEN [ok |-> TRUE,
             residues |-> ChainResidues(h.molecules, h.residues, mutant_mol,
                                        chain.chain)]
       ELSE [ok |-> FALSE, residues |-> <<>>]

\* lines 135-139 for one entry of orig_bonds: the atom heap with the bond
\* made, or KeyError
RepairBond(h, mutant_mol, bond) ==
    LET atom == bond[1]
        mut_atom == bond[2]
        found == RepairResidues(h, mutant_mol, atom, mut_atom)
        res1 == ResidueByName(h.residues, found.residues,
                              ResName(h.residues[h.atoms[atom].residue]))
        res2 == ResidueByName(h.residues, found.residues,
                              ResName(h.residues[h.atoms[mut_atom].residue]))
        new_atom == AtomByName(h.atoms, res1.residue, h.atoms[atom].name)
        new_mut_atom == AtomByName(h.atoms, res2.residue, h.atoms[mut_atom].name)
    IN IF found.ok /\ res1.ok /\ res2.ok /\ new_atom.ok /\ new_mut_atom.ok
       THEN [ok |-> TRUE,
             atoms |-> bond_to(h.atoms, new_atom.atom, new_mut_atom.atom, bond[3])]
       ELSE [ok |-> FALSE, atoms |-> h.atoms]

\* the loop of lines 134-139
RECURSIVE RepairBonds(_, _, _)
RepairBonds(h, mutant_mol, orig_bonds) ==
    IF Len(orig_bonds) = 0 THEN [ok |-> TRUE, atoms |-> h.atoms]
    ELSE LET one == RepairBond(h, mutant_mol, Head(orig_bonds))
         IN IF ~one.ok THEN one
            ELSE RepairBonds([h EXCEPT !.atoms = one.atoms], mutant_mol,
                             Tail(orig_bonds))

Heaps == [molecules |-> molecules, chains |-> chains, residues |-> residues,
          atoms |-> atoms]

SetHeaps(h) ==
    /\ molecules' = h.molecules
    /\ chains' = h.chains
    /\ residues' = h.residues
    /\ atoms' = h.atoms

\* line 76
MolToFixer ==
    /\ pc = "mutate_residues"
    /\ ext_calls' = Append(ext_calls, <<"PDBFixer", args.mol>>)
    /\ pc' = "residue_map"
    /\ UNCHANGED <<args, molecules, chains, residues, atoms, heap0, locals, outcome>>

\* lines 79-83
ResolveMap ==
    /\ pc = "residue_map"
    /\ LET r == IF args.residue_map.kind = "strs"
                THEN _mut_strs_to_map(molecules, chains, residues, args.mol,
                                      args.residue_map.strs)
                ELSE [exc |-> "none", mutmap |-> args.residue_map.items]
       IN IF r.exc # "none" THEN Finish(r.exc) /\ UNCHANGED locals
          ELSE IF r.mutmap = <<>> THEN Finish("ValueError") /\ UNCHANGED locals
          ELSE /\ locals' = [locals EXCEPT !.residue_map = r.mutmap]
               /\ pc' = "applyMutations"
               /\ UNCHANGED outcome
    /\ UNCHANGED <<args, molecules, chains, residues, atoms, heap0, ext_calls>>

\* lines 85-94
ApplyMutations ==
    /\ pc = "applyMutations"
    /\ \E delta \in {-1, 0, 1} :
        LET calls == ApplyMutationsCalls(chains, residues, locals.residue_map)
            h == fixer_to_mol(Heaps, args.mol, calls, delta)
            temp_mutant == Len(h.molecules)
        IN /\ ext_calls' = ext_calls \o calls
           /\ SetHeaps([h EXCEPT !.chains =
                  _pdbfixer_chainnames_to_letter(h.chains, temp_mutant)])
           /\ locals' = [locals EXCEPT
                  !.temp_mutant = temp_mutant,
                  !.mutation_strs = [i \in 1..Len(locals.residue_map) |->
                      _mutation_as_str(chains, residues,
                          locals.residue_map[i][1], locals.residue_map[i][2])]]
    /\ pc' = "graft"
    /\ UNCHANGED <<args, heap0, outcome>>

\* lines 98-108
Graft ==
    /\ pc = "graft"
    /\ IF num_residues(molecules, locals.temp_mutant)
          # num_residues(molecules, args.mol)
       THEN Finish("AssertionError") /\ UNCHANGED <<residues, locals>>
       ELSE LET g == GraftFrom(residues, molecules[args.mol].residues,
                               molecules[locals.temp_mutant].residues,
                               locals.residue_map, 1)
            IN /\ residues' = g.residues
               /\ locals' = [locals EXCEPT
                      !.residues_to_copy = g.residues_to_copy,
                      !.old_residue_map = g.old_residue_map]
               /\ pc' = "orig_bonds"
               /\ UNCHANGED outcome
    /\ UNCHANGED <<args, molecules, chains, atoms, heap0, ext_calls>>

\* lines 117-126
CollectBonds ==
    /\ pc = "orig_bonds"
    /\ LET pairs == Sorted(BoundaryPairs(residues, atoms,
                               locals.residues_to_copy, locals.residue_map))
           found == [i \in 1..Len(pairs) |->
                        OrigBond(atoms, locals.old_residue_map, pairs[i])]
       IN IF \E i \in 1..Len(found) : ~found[i].ok
          THEN Finish("KeyError") /\ UNCHANGED locals
          ELSE /\ locals' = [locals EXCEPT !.orig_bonds =
                                [i \in 1..Len(found) |-> found[i].bond]]
               /\ pc' = "Molecule"
               /\ UNCHANGED outcome
    /\ UNCHANGED <<args, molecules, chains, residues, atoms, heap0, ext_calls>>

\* lines 128-141
BuildMutant ==
    /\ pc = "Molecule"
    /\ LET m == Len(molecules) + 1
           metadata == [dict |-> 2 * m + 1,
                        origin |-> [molecules[args.mol].metadata
                                       EXCEPT !.dict = 2 * m],
                        mutations |-> locals.mutation_strs]
           h == Molecule(molecules, chains, residues, atoms,
                         locals.residues_to_copy, metadata)
           fixed == RepairBonds(h, h.mol, locals.orig_bonds)
       IN /\ SetHeaps([h EXCEPT !.atoms = fixed.atoms])
          /\ IF fixed.ok
             THEN /\ locals' = [locals EXCEPT !.result = h.mol]
                  /\ Finish("returned")
             ELSE /\ UNCHANGED locals
                  /\ Finish("KeyError")
    /\ UNCHANGED <<args, heap0, ext_calls>>

MutationTargets == {"MET", "ALA"}

MutationStrings ==
    {<<"1", "M">>, <<"A", ".", "1", "M">>, <<"A", "1", "M">>,
     <<"S", ".", "2", "A">>, <<"2", "A">>, <<"1", "M", "1">>, <<"M">>}

\* the atoms of the first and of the last residue: a bond between the two is
\* no bond of the structure
ExtraBonds ==
    {{}} \cup {{<<1, a, NumRes, b, 2>>} : a, b \in SeqRange(AtomNames)}

MutateMolecules ==
    {CallerMolecule(split, LetterNames, restart, extra,
                    [a \in 1..(Len(AtomNames) * NumRes) |-> DefaultPosition(a)])
        : split \in 1..NumRes, restart \in BOOLEAN, extra \in ExtraBonds}

ResidueMaps ==
    {[kind |-> "dict",
      items |-> [i \in 1..Len(keys) |-> <<keys[i], newres>>]]
        : keys \in {SelectIdx([i \in 1..NumRes |-> i], S) : S \in SUBSET (1..NumRes)},
          newres \in MutationTargets}
    \cup {[kind |-> "strs", strs |-> strs]
            : strs \in {<<>>} \cup {<<s>> : s \in MutationStrings}
                       \cup {<<s1, s2>> : s1, s2 \in MutationStrings}}

InitMutate ==
    \E h \in MutateMolecules, m \in ResidueMaps :
        InitWith("mutate_residues", h, [mol |-> 1, residue_map |-> m])

NextMutate ==
    \/ MolToFixer
    \/ ResolveMap
    \/ ApplyMutations
    \/ Graft
    \/ CollectBonds
    \/ BuildMutant

SpecMutate == InitMutate /\ [][NextMutate]_vars

\* ---------------------------------------------------------- add_water

\* An optional argument is <<>> for None and <<v>> for the value v
Given(opt) == opt # <<>>
\* `if x:` for an optional number
Truthy(opt) == opt # <<>> /\ opt[1] # 0

\* lines 254-256 (and 257-259): the ion name with its sign; a name ending in
\* the opposite sign fails the assertion, the empty name fails name[-1]
IonName_NoAssertion(name, sign, opposite) ==
    IF Len(name) = 0 THEN [exc |-> "IndexError", name |-> name]
    ELSE IF LastChar(name) # sign
    THEN [exc |-> "none", name |-> Append(name, sign)]
    ELSE [exc |-> "none", name |-> name]

IonName(name, sign, opposite) ==
    IF Len(name) = 0 THEN [exc |-> "IndexError", name |-> name]
    ELSE IF LastChar(name) # sign
    THEN IF LastChar(name) = opposite
         THEN [exc |-> "AssertionError", name |-> name]
         ELSE [exc |-> "none", name |-> Append(name, sign)]
    ELSE [exc |-> "none", name |-> name]

\* mol.positions.max(axis=0) - mol.positions.min(axis=0), line 272
Ranges(mols, ats, mol) ==
    LET mine == {a \in 1..Len(ats) :
                    ats[a].residue \in SeqRange(mols[mol].residues)}
        hi(d) == CHOOSE v \in {ats[a].position[d] : a \in mine} :
                     \A a \in mine : ats[a].position[d] <= v
        lo(d) == CHOOSE v \in {ats[a].position[d] : a \in mine} :
                     \A a \in mine : ats[a].position[d] >= v
    IN [d \in 1..3 |-> hi(d) - lo(d)]

\* lines 268-274
BoxSize(min_box_size, padding, ranges) ==
    LET start == IF Truthy(min_box_size)
                 THEN [d \in 1..3 |-> min_box_size[1]]
                 ELSE [d \in 1..3 |-> 0]
    IN IF Truthy(padding)
       THEN [d \in 1..3 |-> Max(start[d], ranges[d] + padding[1])]
       ELSE start

\* The external solvent placement, read back by topology_to_mol (lines
\* 282-291): the solute's residues as the tool returns them ("same", with a
\* hydrogen "added" to each, or with the last one "dropped") followed by
\* `waters` water residues in a chain of their own
SolvatedMolecule(h, mol, how, waters) ==
    LET src == h.molecules[mol].residues
        kept == IF how = "dropped" THEN Len(src) - 1 ELSE Len(src)
        cbase == h.molecules[mol].chains[1] - 1
        nchains == Len(h.molecules[mol].chains)
        res == [i \in 1..(kept + waters) |->
                  IF i <= kept
                  THEN LET r == h.residues[src[i]]
                       IN [resname |-> r.resname,
                           pdbindex |-> r.pdbindex,
                           chain |-> r.chain - cbase,
                           atoms |-> IF how = "added"
                                     THEN Append(EngineAtomNames, "H")
                                     ELSE EngineAtomNames]
                  ELSE [resname |-> "HOH", pdbindex |-> i - kept,
                        chain |-> nchains + 1, atoms |-> WaterAtomNames]]
    IN BuildMolecule(h,
        [c \in 1..(nchains + 1) |-> DecStr(c)],
        res, {},
        [j \in 1..Len(AtomList(res)) |-> <<j, 1, 0>>],
        [dict |-> 2, items |-> {}])

\* lines 306-307
CountsAgree_ResiduesOnly(mols, ats, newmol, solv_tempmol) ==
    num_residues(mols, newmol) = num_residues(mols, solv_tempmol)

CountsAgree(mols, ats, newmol, solv_tempmol) ==
    /\ num_atoms(mols, ats, newmol) = num_atoms(mols, ats, solv_tempmol)
    /\ num_residues(mols, newmol) = num_residues(mols, solv_tempmol)

\* lines 298-300: the solute followed by solv_tempmol.residues[mol.num_residues:]
NewmolResidues(mols, mol, solv_tempmol) ==
    mols[mol].residues
    \o SubSeq(mols[solv_tempmol].residues, num_residues(mols, mol) + 1,
              num_residues(mols, solv_tempmol))

\* lines 250-251
CheckArguments ==
    /\ pc = "add_water"
    /\ IF ~Given(args.padding) /\ ~Given(args.min_box_size)
       THEN Finish("ValueError")
       ELSE pc' = "ions" /\ UNCHANGED outcome
    /\ UNCHANGED <<args, molecules, chains, residues, atoms, heap0, locals, ext_calls>>

\* lines 254-259
IonNames ==
    /\ pc = "ions"
    /\ LET pos == IonName(args.positive_ion, "+", "-")
           neg == IonName(args.negative_ion, "-", "+")
       IN IF pos.exc # "none" THEN Finish(pos.exc) /\ UNCHANGED locals
          ELSE IF neg.exc # "none" THEN Finish(neg.exc) /\ UNCHANGED locals
          ELSE /\ locals' = [locals EXCEPT !.positive_ion = pos.name,
                                           !.negative_ion = neg.name]
               /\ pc' = "boxsize"
               /\ UNCHANGED outcome
    /\ UNCHANGED <<args, molecules, chains, residues, atoms, heap0, ext_calls>>

\* lines 268-275
ComputeBox ==
    /\ pc = "boxsize"
    /\ LET boxsize == BoxSize(args.min_box_size, args.padding,
                              Ranges(molecules, atoms, args.mol))
       IN /\ locals' = [locals EXCEPT !.boxsize = boxsize]
          /\ IF \A d \in 1..3 : boxsize[d] >= 0
             THEN pc' = "addSolvent" /\ UNCHANGED outcome
             ELSE Finish("AssertionError")
    /\ UNCHANGED <<args, molecules, chains, residues, atoms, heap0, ext_calls>>

\* lines 277-293
AddSolvent ==
    /\ pc = "addSolvent"
    /\ ext_calls' = ext_calls \o
           <<<<"mol_to_modeller", args.mol>>, <<"_createForceField">>,
             <<"addSolvent", locals.boxsize, locals.positive_ion,
               locals.negative_ion>>>>
    /\ \E how \in {"same", "added", "dropped"}, waters \in 0..MaxSolvent :
        LET h == SolvatedMolecule(Heaps, args.mol, how, waters)
            solv_tempmol == Len(h.molecules)
        IN /\ SetHeaps([h EXCEPT !.chains =
                  _pdbfixer_chainnames_to_letter(h.chains, solv_tempmol)])
           /\ locals' = [locals EXCEPT !.solv_tempmol = solv_tempmol]
    /\ pc' = "newmol"
    /\ UNCHANGED <<args, heap0, outcome>>

\* lines 298-308
Assemble ==
    /\ pc = "newmol"
    /\ LET m == Len(molecules) + 1
           h == Molecule(molecules, chains, residues, atoms,
                    NewmolResidues(molecules, args.mol, locals.solv_tempmol),
                    [dict |-> 2 * m + 1,
                     origin |-> molecules[args.mol].metadata])
       IN /\ SetHeaps(h)
          /\ locals' = [locals EXCEPT !.result = h.mol]
          /\ Finish(IF CountsAgree(h.molecules, h.atoms, h.mol, locals.solv_tempmol)
                    THEN "returned" ELSE "AssertionError")
    /\ UNCHANGED <<args, heap0, ext_calls>>

PositiveIons == {<<>>, <<"N", "a">>, <<"N", "a", "+">>, <<"N", "a", "-">>}
NegativeIons == {<<>>, <<"C", "l">>, <<"C", "l", "-">>, <<"C", "l", "+">>}

\* solutes whose bounding box is x by MaxCoord - x by 0
SoluteMolecules ==
    {CallerMolecule(split, LetterNames, TRUE, {},
                    [a \in 1..(Len(AtomNames) * NumRes) |->
                        IF a = 1 THEN <<x, MaxCoord - x, 0>> ELSE <<0, 0, 0>>])
        : split \in {1, NumRes}, x \in 0..MaxCoord}

InitWater ==
    \E h \in SoluteMolecules,
       min_box_size \in {<<>>, <<-1>>, <<0>>, <<MaxCoord>>},
       padding \in {<<>>, <<-1>>, <<0>>, <<1>>},
       positive_ion \in PositiveIons, negative_ion \in NegativeIons :
        InitWith("add_water", h,
                 [mol |-> 1, min_box_size |-> min_box_size, padding |-> padding,
                  positive_ion |-> positive_ion, negative_ion |-> negative_ion])

NextWater ==
    \/ CheckArguments
    \/ IonNames
    \/ ComputeBox
    \/ AddSolvent
    \/ Assemble

SpecWater == InitWater /\ [][NextWater]_vars

\* mutate_residues or add_water on a caller's molecule
SpecApply == (InitMutate \/ InitWater) /\ [][NextMutate \/ NextWater]_vars

\* ----------------------------------------------------------- properties

\* C9. _pdbfixer_chainnames_to_letter renames a chain whose name is the
\* decimal numeral of n, 1 <= n <= 26, to the n-th uppercase letter and leaves
\* every other chain name ('0', non-numeric names, numbers above 26) as it was.
C9_ChainNamesNormalized ==
    pc = "done" =>
        \A c \in 1..Len(chains) :
            LET old == heap0.chains[c].name
            IN IF isdigit(old) /\ 1 <= int(old) /\ int(old) <= 26
               THEN chains[c].name = <<ascii_uppercase[int(old)]>>
               ELSE chains[c].name = old

\* C5. A string that, taken as a whole, is not of the form
\* (chain.)?(sourcecode)?(digits)(targetcode) is never accepted: parsing it
\* does not return a mutation map.
WholeStringMatches(s) ==
    \E t \in MUT_RE_Splits(s) : MUT_RE_Valid(s, t) /\ t[4] = Len(s)

C5_MalformedRejected ==
    (pc = "done" /\ ~WholeStringMatches(args.strs[1])) =>
        (outcome # "returned" /\ locals.residue_map = <<>>)

\* C4. For a well-formed string chain.code+position+target (chain and code
\* optional, the chain one of the molecule's) the map's keys are exactly the
\* residues with that pdb index, that code and that chain, each mapped to the
\* target's 3-letter name; when there are none a ValueError is raised.
ChainNameOf(h, r) == h.chains[h.residues[r].chain].name

Targets(h, chain, code, position) ==
    {r \in SeqRange(h.molecules[1].residues) :
        /\ h.residues[r].pdbindex = position
        /\ (code # <<>> => ResCode(h.residues[r]) = code)
        /\ (chain # <<>> => ChainNameOf(h, r) = chain)}

ResidueValue(h, r) ==
    [resname |-> h.residues[r].resname,
     pdbindex |-> h.residues[r].pdbindex,
     chain |-> h.chains[h.residues[r].chain].name,
     atoms |-> {<<h.atoms[a].name, h.atoms[a].position>> :
                   a \in ResAtoms(h.atoms, r)}]

\* the bonds of a molecule as <<residue index, atom name, residue index,
\* atom name, order>>, each in both directions
BondsOf(h, mol) ==
    LET rl == h.molecules[mol].residues
        idx(a) == IndexOf(rl, h.atoms[a].residue)
    IN UNION {{<<idx(a), h.atoms[a].name, idx(e[1]), h.atoms[e[1]].name, e[2]>> :
                  e \in {e \in h.atoms[a].bond_graph :
                            h.atoms[e[1]].residue \in SeqRange(rl)}} :
              a \in {a \in 1..Len(h.atoms) : h.atoms[a].residue \in SeqRange(rl)}}

MutateReturned ==
    pc = "done" /\ outcome = "returned" /\ locals.temp_mutant # None

\* the indices of the residues of the caller's molecule that are mutated
MutatedIdx ==
    {i \in 1..Len(heap0.molecules[1].residues) :
        heap0.molecules[1].residues[i] \in MapKeys(locals.residue_map)}

\* C1. When mutate_residues returns, the mutant has as many residues as the
\* original; residue i is the engine's residue i, of the target type and in
\* the original residue's chain, when the original's residue i is in the
\* mutation map, and the original's residue i otherwise.  When the engine's
\* residue count differs, mutate_residues ends with an AssertionError.
C1_MutantResidues ==
    /\ MutateReturned =>
        LET old == heap0.molecules[1].residues
            eng == molecules[locals.temp_mutant].residues
            new == molecules[locals.result].residues
        IN /\ Len(new) = Len(old)
           /\ \A i \in 1..Len(old) :
                IF i \in MutatedIdx
                THEN /\ ResidueValue(Heaps, new[i]) = ResidueValue(Heaps, eng[i])
                     /\ residues[new[i]].resname
                            = MapValue(locals.residue_map, old[i])
                     /\ ResidueValue(Heaps, new[i]).chain
                            = ResidueValue(heap0, old[i]).chain
                ELSE ResidueValue(Heaps, new[i]) = ResidueValue(heap0, old[i])
    /\ (/\ pc = "done"
        /\ locals.temp_mutant # None
        /\ Len(molecules[locals.temp_mutant].residues)
               # Len(heap0.molecules[1].residues))
       => outcome = "AssertionError"

\* a mutant with a mutated and a kept residue
C1_Witness ==
    /\ MutateReturned
    /\ MutatedIdx # {}
    /\ MutatedIdx # 1..NumRes

\* C3. When two entries of the mutation strings resolve to the same residue,
\* the 'Multiple mutations' assertion fires before any call into the external
\* engine has been made.
C3_DuplicateBeforeExternalCall ==
    (/\ pc = "done"
     /\ outcome = "AssertionError"
     /\ locals.temp_mutant = None
     /\ "residue_map" \in DOMAIN args)
    => ext_calls = <<>>

\* C10. The returned mutant has, for every bond of the original between a
\* backbone atom of a kept residue and an atom of a mutated residue, a bond of
\* that order between the atoms of those names in the mutant's residues at the
\* same places; besides these the mutant has the bonds its residues brought
\* along and no others.
BoundaryBonds ==
    {e \in BondsOf(heap0, 1) :
        \/ e[1] \notin MutatedIdx /\ e[2] \in BackboneNames /\ e[3] \in MutatedIdx
        \/ e[3] \notin MutatedIdx /\ e[4] \in BackboneNames /\ e[1] \in MutatedIdx}

BroughtAlong ==
    {e \in BondsOf(heap0, 1) : e[1] \notin MutatedIdx /\ e[3] \notin MutatedIdx}
    \cup {e \in BondsOf(Heaps, locals.temp_mutant) :
              e[1] \in MutatedIdx /\ e[3] \in MutatedIdx}

C10_BoundaryBondsRecreated ==
    MutateReturned =>
        BondsOf(Heaps, locals.result) = BoundaryBonds \cup BroughtAlong

\* C2. Neither mutate_residues nor add_water writes to the caller's molecule:
\* at every point of either call, and whatever its outcome, the objects the
\* caller handed over (the molecule with its residue list and metadata, its
\* chains, its residues with their chain and molecule, its atoms with their
\* bond graphs) are as they were.
C2_OriginalUntouched ==
    /\ SubSeq(molecules, 1, Len(heap0.molecules)) = heap0.molecules
    /\ SubSeq(chains, 1, Len(heap0.chains)) = heap0.chains
    /\ SubSeq(residues, 1, Len(heap0.residues)) = heap0.residues
    /\ SubSeq(atoms, 1, Len(heap0.atoms)) = heap0.atoms

\* a mutant was returned after a residue was re-parented and a bond re-made
C2_Witness ==
    /\ MutateReturned
    /\ \E r \in 1..Len(residues) : residues[r].mol = None
    /\ locals.orig_bonds # <<>>

WaterCalled == \E k \in 1..Len(ext_calls) : ext_calls[k][1] = "addSolvent"

\* C6. With a padding supplied (zero included) and no explicit box size, the
\* box handed to the external solvation call is, in every dimension, at least
\* the solute's extent plus the padding.
C6_BoxCoversPaddedSolute ==
    (WaterCalled /\ Given(args.padding) /\ ~Given(args.min_box_size)) =>
        \A d \in 1..3 :
            locals.boxsize[d]
                >= Ranges(heap0.molecules, heap0.atoms, 1)[d] + args.padding[1]

\* C7. The ion names handed to the external solvation call end in '+' and
\* '-': the caller's name when it carries the sign, the name with the sign
\* appended when it does not.  A positive ion ending in '-' or a negative ion
\* ending in '+' never reaches the call: add_water ends in an exception, the
\* AssertionError of lines 255/258 once the arguments before them are accepted.
EndsWith(s, c) == Len(s) > 0 /\ LastChar(s) = c

WithSign(name, sign) == IF EndsWith(name, sign) THEN name ELSE Append(name, sign)

WrongSign ==
    "positive_ion" \in DOMAIN args
    /\ (EndsWith(args.positive_ion, "-") \/ EndsWith(args.negative_ion, "+"))

C7_IonNamesSigned ==
    /\ \A k \in 1..Len(ext_calls) :
          ext_calls[k][1] = "addSolvent" =>
              /\ ext_calls[k][3] = WithSign(args.positive_ion, "+")
              /\ ext_calls[k][4] = WithSign(args.negative_ion, "-")
              /\ EndsWith(ext_calls[k][3], "+")
              /\ EndsWith(ext_calls[k][4], "-")
    /\ WrongSign => ~WaterCalled
    /\ (pc = "done" /\ WrongSign) => outcome # "returned"
    /\ (/\ pc = "done"
        /\ WrongSign
        /\ Given(args.padding) \/ Given(args.min_box_size)
        /\ args.positive_ion # <<>>)
       => outcome = "AssertionError"

\* the call was made with a sign appended to one name and the other unchanged
C7_Witness ==
    /\ WaterCalled
    /\ ~EndsWith(args.positive_ion, "+")
    /\ EndsWith(args.negative_ion, "-")

\* C8. When add_water returns, the result is the solute's residues, as they
\* were and in their order, followed by the residues of the tool's solvated
\* output from index num_residues(solute) on, and it has the output's atom
\* and residue counts; when the counts differ add_water ends in an
\* AssertionError.
C8_SolvatedResult ==
    (pc = "done" /\ locals.solv_tempmol # None) =>
        LET old == heap0.molecules[1].residues
            solv == molecules[locals.solv_tempmol].residues
            new == molecules[locals.result].residues
            natoms(m) == Cardinality({a \in 1..Len(atoms) :
                             atoms[a].residue \in SeqRange(molecules[m].residues)})
            same == /\ natoms(locals.result) = natoms(locals.solv_tempmol)
                    /\ Len(new) = Len(solv)
        IN /\ outcome = (IF same THEN "returned" ELSE "AssertionError")
           /\ outcome = "returned" =>
                /\ \A i \in 1..Len(old) :
                      ResidueValue(Heaps, new[i]) = ResidueValue(heap0, old[i])
                /\ \A i \in (Len(old) + 1)..Len(new) :
                      ResidueValue(Heaps, new[i]) = ResidueValue(Heaps, solv[i])

\* a solvated molecule with water grafted on was returned
C8_Witness ==
    /\ pc = "done"
    /\ outcome = "returned"
    /\ locals.solv_tempmol # None
    /\ Len(molecules[locals.result].residues) > Len(heap0.molecules[1].residues)

====
